---- MODULE Spec2Model ----
(***************************************************************************)
(* A model of client/webrtc.go: the WebRTCPeer session, the goroutines and *)
(* engine callbacks that touch it, and the collaborators it talks to (the  *)
(* go-webrtc engine, the broker, the io.Pipe bridge, the clock).           *)
(*                                                                         *)
(* Every access to a field of WebRTCPeer that another goroutine may write  *)
(* is a step of its own where the order matters: the code holds no lock,   *)
(* so the goroutines interleave between any two such accesses.  A Go panic *)
(* ends the process: it is recorded in `panic` and no action is enabled    *)
(* after it.                                                               *)
(* The session is constructed with a broker (c.broker # nil).              *)
(***************************************************************************)
EXTENDS Integers, Sequences, FiniteSets, TLC

\* Bounds of the model.
MaxWrites == 2
MaxConnects == 2
MaxCloseCalls == 2
MaxResetCalls == 2
MaxMessages == 1
MaxSubmissions == 3
MaxTime == 2
\* The two timeouts, in clock ticks (one tick is the watchdog's polling second).
SnowflakeTimeout == 1
ReconnectTimeout == 1

VARIABLES
  \* fields of WebRTCPeer
  pc,             \* c.pc: 0 is nil, else the id of an engine connection
  transport,      \* c.transport: 0 is nil, else the id of a data channel
  offerChannel,   \* [q: the buffered values, open: not yet closed], capacity 1
  answerChannel,
  errorChannel,
  writePipe,      \* c.writePipe: "nil" or "w"
  lastReceive,
  buffer,         \* c.buffer: the buffered bytes
  reset,          \* number of values in c.reset, capacity 1
  closed,
  \* collaborators
  pipe,           \* the io.Pipe: [closed: write end closed, data: the pending write]
  conn,           \* engine connections and their data channel, by id
  sent,           \* the Send calls the data channels received, in order
  received,       \* what Read returned to the consumer, in order
  now,            \* the clock, in ticks
  \* goroutines and callbacks
  panic,          \* "none", or the panic that ended the process
  closer,         \* where each caller of Close stands in Close
  connector,      \* the goroutine running Connect
  wd,             \* the checkForStaleness goroutines, by Connect call
  writer,         \* the goroutine calling Write
  onOpen,         \* 0, or the channel whose OnOpen callback is between flush and publish
  onMsg,          \* the OnMessage callback
  broker,         \* the sendOfferToBroker goroutines
  resetter,       \* the goroutine calling Reset directly
  reader,         \* what the last Read returned
  \* bookkeeping of what happened
  log

vars == <<pc, transport, offerChannel, answerChannel, errorChannel, writePipe,
          lastReceive, buffer, reset, closed, pipe, conn, sent, received, now,
          panic, closer, connector, wd, writer, onOpen, onMsg, broker, resetter,
          reader, log>>

Ids == 1..MaxConnects
Nil == 0

\* The callers of Close: the application, Connect's fatal-error path, the
\* OnClose callback and the watchdog started by each Connect call.
Ctx == {<<"app", 0>>, <<"connect", 0>>, <<"onclose", 0>>} \cup {<<"wd", k>> : k \in Ids}

NewChan == [q |-> <<>>, open |-> TRUE]
NoConn == [live |-> FALSE, neg |-> "none", remote |-> FALSE, dc |-> "none"]
NoMsg == [pc |-> "idle", len |-> 0, n |-> 0, err |-> FALSE]

\* A data channel the engine closes: OnClose is then pending.
DcClose(s) == IF s \in {"connecting", "open"} THEN "closing" ELSE s

\* pc.Close() on the engine connection id: it and its data channel close.
EngineClose(c, id) ==
  [c EXCEPT ![id] = [@ EXCEPT !.live = FALSE, !.dc = DcClose(@)]]

Init ==
  /\ pc = Nil
  /\ transport = Nil
  /\ offerChannel = NewChan
  /\ answerChannel = NewChan
  /\ errorChannel = NewChan
  /\ writePipe = "w"
  /\ lastReceive = 0
  /\ buffer = <<>>
  /\ reset = 0
  /\ closed = FALSE
  /\ pipe = [closed |-> FALSE, data |-> <<>>, writing |-> FALSE]
  /\ conn = [i \in Ids |-> NoConn]
  /\ sent = <<>>
  /\ received = <<>>
  /\ now = 0
  /\ panic = "none"
  /\ closer = [x \in Ctx |-> "idle"]
  /\ connector = [pc |-> "idle", calls |-> 0, err |-> "none", answer |-> "nil",
                  wait |-> 0, result |-> "none"]
  /\ wd = [k \in Ids |-> "off"]
  /\ writer = [pc |-> "idle", n |-> 0, seen |-> Nil]
  /\ onOpen = Nil
  /\ onMsg = NoMsg
  /\ broker = [starting |-> 0, negotiating |-> 0]
  /\ resetter = [pc |-> "idle", calls |-> 0]
  /\ reader = "none"
  /\ log = [created |-> 0, appCloses |-> 0, closeCalls |-> 0, noops |-> 0,
            overlap |-> FALSE, cleanups |-> 0, closeResets |-> 0, resets |-> 0,
            submissions |-> 0, failures |-> 0, backoffs |-> 0, lateSpawns |-> 0,
            closeInLoop |-> FALSE, reconnect |-> FALSE, remote |-> FALSE,
            messages |-> 0, flushes |-> 0, pcClosed |-> 0, dcClosed |-> 0,
            pipeClosed |-> 0, lastMsg |-> 0, lastFrom |-> "none",
            firedAfter |-> "none", localClose |-> {},
            lateConnect |-> FALSE, lateWrites |-> {}]

\* Close has completed: c.closed is set and no call of Close is under way.
CloseCompleted ==
  /\ closed
  /\ \A x \in Ctx : closer[x] \in {"idle", "call"}

-----------------------------------------------------------------------------
(* Write, lines 71-81.  c.transport is read for the test and, in the else  *)
(* branch, read again for the call.                                        *)

\* Line 74: the test nil == c.transport.
WriteCall ==
  /\ panic = "none"
  /\ writer.pc = "idle"
  /\ writer.n < MaxWrites
  /\ writer' = [pc |-> "act", n |-> writer.n + 1, seen |-> transport]
  /\ log' = [log EXCEPT !.lateWrites =
                IF CloseCompleted /\ transport = Nil THEN @ \cup {writer.n + 1} ELSE @]
  /\ UNCHANGED <<pc, transport, offerChannel, answerChannel, errorChannel, writePipe,
                 lastReceive, buffer, reset, closed, pipe, conn, sent, received, now,
                 panic, closer, connector, wd, onOpen, onMsg, broker, resetter,
                 reader>>

\* Lines 75-80: c.buffer.Write(b), or c.transport.Send(b); return len(b), nil.
\* The k-th Write writes the one byte k.  The field is read without
\* synchronisation: the call of line 78 uses the value the test saw or reads
\* the field again, and a nil read there is a nil dereference.
WriteAct ==
  /\ panic = "none"
  /\ writer.pc = "act"
  /\ writer' = [writer EXCEPT !.pc = "idle"]
  /\ IF writer.seen = Nil
       THEN /\ buffer' = Append(buffer, writer.n)
            /\ UNCHANGED <<sent, panic>>
       ELSE \E t \in {writer.seen, transport} :
              IF t = Nil
                THEN /\ panic' = "nil dereference: c.transport"
                     /\ UNCHANGED <<buffer, sent>>
                ELSE /\ sent' = Append(sent, [dc |-> t, data |-> <<writer.n>>])
                     /\ UNCHANGED <<buffer, panic>>
  /\ UNCHANGED <<pc, transport, offerChannel, answerChannel, errorChannel, writePipe,
                 lastReceive, reset, closed, pipe, conn, received, now,
                 closer, connector, wd, onOpen, onMsg, broker, resetter,
                 reader, log>>

-----------------------------------------------------------------------------
(* dc.OnOpen, lines 208-221.                                               *)

\* Lines 210-218: the engine opens channel id; the callback flushes c.buffer.
OnOpenFlush(id) ==
  /\ panic = "none"
  /\ onOpen = Nil
  /\ conn[id].live /\ conn[id].remote /\ conn[id].dc = "connecting"
  /\ conn' = [conn EXCEPT ![id].dc = "open"]
  /\ IF transport # Nil
       THEN /\ panic' = "transport already exists"
            /\ UNCHANGED <<sent, buffer, onOpen, log>>
       ELSE /\ onOpen' = id
            /\ IF Len(buffer) > 0
                 THEN /\ sent' = Append(sent, [dc |-> id, data |-> buffer])
                      /\ buffer' = <<>>
                      /\ log' = [log EXCEPT !.flushes = @ + 1]
                 ELSE UNCHANGED <<sent, buffer, log>>
            /\ UNCHANGED panic
  /\ UNCHANGED <<pc, transport, offerChannel, answerChannel, errorChannel, writePipe,
                 lastReceive, reset, closed, pipe, received, now,
                 closer, connector, wd, writer, onMsg, broker, resetter, reader>>

\* Line 220: c.transport = dc.
OnOpenPublish ==
  /\ panic = "none"
  /\ onOpen # Nil
  /\ transport' = onOpen
  /\ onOpen' = Nil
  /\ UNCHANGED <<pc, offerChannel, answerChannel, errorChannel, writePipe,
                 lastReceive, buffer, reset, closed, pipe, conn, sent, received, now,
                 panic, closer, connector, wd, writer, onMsg, broker, resetter,
                 reader, log>>

-----------------------------------------------------------------------------
(* Close, lines 84-94, with cleanup, lines 308-339, and Reset, lines       *)
(* 97-102, as Close calls them.                                            *)

\* The caller x is about to call Close.
Poised(x) ==
  IF x[1] = "app" THEN closer[x] = "idle" /\ log.appCloses < MaxCloseCalls
                  ELSE closer[x] = "call"

\* Close returns to its caller x: Connect's fatal path goes on to return the
\* error, the watchdog returns (line 120), the others have nothing left to do.
Returned(x) ==
  /\ closer' = [closer EXCEPT ![x] = "idle"]
  /\ connector' = IF x[1] = "connect" THEN [connector EXCEPT !.pc = "fatalret"]
                                      ELSE connector
  /\ wd' = IF x[1] = "wd" THEN [wd EXCEPT ![x[2]] = "done"] ELSE wd

\* Another caller is inside Close, between its test of c.closed and its return.
Inside(x) == \E y \in Ctx \ {x} : closer[y] \notin {"idle", "call"}

\* Connect is blocked in the retry loop of exchangeSDP, lines 289-297: in the
\* receive of line 291 or in the backoff of line 294.
InLoop == connector.pc \in {"await", "backoff"}

\* Line 85: if c.closed.
AlreadyClosedNever == FALSE
AlreadyClosed == closed

\* Lines 84-87: the call of Close and its test of c.closed.
CloseCall(x) ==
  /\ panic = "none"
  /\ Poised(x)
  /\ log' = [log EXCEPT !.appCloses = IF x[1] = "app" THEN @ + 1 ELSE @,
                        !.closeCalls = @ + 1,
                        !.noops = IF AlreadyClosed THEN @ + 1 ELSE @,
                        !.overlap = @ \/ Inside(x),
                        !.closeInLoop = @ \/ (~closed /\ InLoop)]
  /\ IF AlreadyClosed
       THEN Returned(x)
       ELSE /\ closer' = [closer EXCEPT ![x] = "mark"]
            /\ UNCHANGED <<connector, wd>>
  /\ UNCHANGED <<pc, transport, offerChannel, answerChannel, errorChannel, writePipe,
                 lastReceive, buffer, reset, closed, pipe, conn, sent, received, now,
                 panic, writer, onOpen, onMsg, broker, resetter, reader>>

\* Line 89: c.closed = true.
CloseMark(x) ==
  /\ panic = "none"
  /\ closer[x] = "mark"
  /\ closed' = TRUE
  /\ closer' = [closer EXCEPT ![x] = "carriers"]
  /\ UNCHANGED <<pc, transport, offerChannel, answerChannel, errorChannel, writePipe,
                 lastReceive, buffer, reset, pipe, conn, sent, received, now,
                 panic, connector, wd, writer, onOpen, onMsg, broker, resetter,
                 reader, log>>

\* Lines 309-317: close the three channels; closing a closed channel panics.
CleanupCarriers(x) ==
  /\ panic = "none"
  /\ closer[x] = "carriers"
  /\ IF offerChannel.open /\ answerChannel.open /\ errorChannel.open
       THEN /\ offerChannel' = [offerChannel EXCEPT !.open = FALSE]
            /\ answerChannel' = [answerChannel EXCEPT !.open = FALSE]
            /\ errorChannel' = [errorChannel EXCEPT !.open = FALSE]
            /\ closer' = [closer EXCEPT ![x] = "pipe"]
            /\ log' = [log EXCEPT !.cleanups = @ + 1]
            /\ UNCHANGED panic
       ELSE /\ panic' = "close of closed channel"
            /\ UNCHANGED <<offerChannel, answerChannel, errorChannel, closer, log>>
  /\ UNCHANGED <<pc, transport, writePipe, lastReceive, buffer, reset, closed, pipe,
                 conn, sent, received, now, connector, wd, writer, onOpen, onMsg,
                 broker, resetter, reader>>

\* The write end of the pipe closes: a Write blocked in it returns 0 and
\* io.ErrClosedPipe.
PipeClose(p) == [closed |-> TRUE, data |-> <<>>, writing |-> FALSE]
WriterWoken(m) == IF m.pc = "writing" THEN [m EXCEPT !.pc = "after", !.n = 0, !.err = TRUE]
                                      ELSE m

\* Lines 319-320: c.writePipe.Close().
CleanupPipe(x) ==
  /\ panic = "none"
  /\ closer[x] = "pipe"
  /\ IF writePipe = "nil"
       THEN /\ closer' = [closer EXCEPT ![x] = "transport"]
            /\ UNCHANGED <<pipe, onMsg, log>>
       ELSE /\ closer' = [closer EXCEPT ![x] = "pipenil"]
            /\ pipe' = PipeClose(pipe)
            /\ onMsg' = WriterWoken(onMsg)
            /\ log' = [log EXCEPT !.pipeClosed = @ + 1]
  /\ UNCHANGED <<pc, transport, offerChannel, answerChannel, errorChannel, writePipe,
                 lastReceive, buffer, reset, closed, conn, sent, received, now,
                 panic, connector, wd, writer, onOpen, broker, resetter, reader>>

\* Line 321: c.writePipe = nil.
CleanupPipeNil(x) ==
  /\ panic = "none"
  /\ closer[x] = "pipenil"
  /\ writePipe' = "nil"
  /\ closer' = [closer EXCEPT ![x] = "transport"]
  /\ UNCHANGED <<pc, transport, offerChannel, answerChannel, errorChannel,
                 lastReceive, buffer, reset, closed, pipe, conn, sent, received, now,
                 panic, connector, wd, writer, onOpen, onMsg, broker, resetter,
                 reader, log>>

\* Lines 325-329: c.transport is nil by the time dataChannel.Close() is called.
StillSet(t) == t
ClearedBeforeClose(t) == Nil

\* Lines 323-330: c.transport = nil, then dataChannel.Close().
CleanupTransport(x) ==
  /\ panic = "none"
  /\ closer[x] = "transport"
  /\ closer' = [closer EXCEPT ![x] = "pc"]
  /\ IF transport # Nil
       THEN /\ conn' = [conn EXCEPT ![transport].dc = DcClose(@)]
            /\ transport' = ClearedBeforeClose(transport)
            /\ log' = [log EXCEPT !.dcClosed = @ + 1,
                                  !.localClose = @ \cup {transport}]
       ELSE UNCHANGED <<conn, transport, log>>
  /\ UNCHANGED <<pc, offerChannel, answerChannel, errorChannel, writePipe,
                 lastReceive, buffer, reset, closed, pipe, sent, received, now,
                 panic, connector, wd, writer, onOpen, onMsg, broker, resetter, reader>>

\* Lines 331-338: c.pc.Close(), c.pc = nil.
CleanupPc(x) ==
  /\ panic = "none"
  /\ closer[x] = "pc"
  /\ closer' = [closer EXCEPT ![x] = "reset"]
  /\ IF pc # Nil
       THEN /\ conn' = EngineClose(conn, pc)
            /\ pc' = Nil
            /\ log' = [log EXCEPT !.pcClosed = @ + 1]
       ELSE UNCHANGED <<conn, pc, log>>
  /\ UNCHANGED <<transport, offerChannel, answerChannel, errorChannel, writePipe,
                 lastReceive, buffer, reset, closed, pipe, sent, received, now,
                 panic, connector, wd, writer, onOpen, onMsg, broker, resetter, reader>>

\* Line 101: c.reset <- struct{}{} blocks while the channel holds a value.
ResetCanSend == reset = 0

\* Line 91: c.Reset(), then Close returns.
CloseReset(x) ==
  /\ panic = "none"
  /\ closer[x] = "reset"
  /\ ResetCanSend
  /\ reset' = 1
  /\ log' = [log EXCEPT !.resets = @ + 1, !.closeResets = @ + 1]
  /\ Returned(x)
  /\ UNCHANGED <<pc, transport, offerChannel, answerChannel, errorChannel, writePipe,
                 lastReceive, buffer, closed, pipe, conn, sent, received, now,
                 panic, writer, onOpen, onMsg, broker, resetter, reader>>

\* Reset called directly, lines 97-102.
ResetCall ==
  /\ panic = "none"
  /\ resetter.pc = "idle"
  /\ resetter.calls < MaxResetCalls
  /\ resetter' = [pc |-> "send", calls |-> resetter.calls + 1]
  /\ UNCHANGED <<pc, transport, offerChannel, answerChannel, errorChannel, writePipe,
                 lastReceive, buffer, reset, closed, pipe, conn, sent, received, now,
                 panic, closer, connector, wd, writer, onOpen, onMsg, broker,
                 reader, log>>

ResetSend ==
  /\ panic = "none"
  /\ resetter.pc = "send"
  /\ ResetCanSend
  /\ reset' = 1
  /\ resetter' = [resetter EXCEPT !.pc = "idle"]
  /\ log' = [log EXCEPT !.resets = @ + 1]
  /\ UNCHANGED <<pc, transport, offerChannel, answerChannel, errorChannel, writePipe,
                 lastReceive, buffer, closed, pipe, conn, sent, received, now,
                 panic, closer, connector, wd, writer, onOpen, onMsg, broker, reader>>

\* WaitForReset, line 105: <-c.reset.
WaitForReset ==
  /\ panic = "none"
  /\ reset = 1
  /\ reset' = 0
  /\ UNCHANGED <<pc, transport, offerChannel, answerChannel, errorChannel, writePipe,
                 lastReceive, buffer, closed, pipe, conn, sent, received, now,
                 panic, closer, connector, wd, writer, onOpen, onMsg, broker, resetter,
                 reader, log>>

-----------------------------------------------------------------------------
(* Connect, lines 127-145.                                                 *)

\* A receive from a Go channel is ready when it holds a value or is closed;
\* from a closed, empty channel it yields the zero value z.
Ready(ch) == Len(ch.q) > 0 \/ ~ch.open
Recv(ch, z) == IF Len(ch.q) > 0 THEN Head(ch.q) ELSE z
Taken(ch) == IF Len(ch.q) > 0 THEN [ch EXCEPT !.q = Tail(@)] ELSE ch

\* Connect is called again after a Close that has returned and fired the reset.
AfterClose ==
  /\ connector.calls > 0
  /\ closed
  /\ log.closeResets > 0
  /\ \A x \in Ctx : closer[x] \in {"idle", "call"}

\* Connect, line 131, with preparePeerConnection, lines 148-157: close the old
\* engine connection, create a new one (which may fail).
ConnectPrepare ==
  /\ panic = "none"
  /\ connector.pc = "idle"
  /\ connector.calls < MaxConnects
  /\ \E ok \in BOOLEAN :
       LET c1 == IF pc # Nil THEN EngineClose(conn, pc) ELSE conn
           id == log.created + 1
           lg == [log EXCEPT !.pcClosed = IF pc # Nil THEN @ + 1 ELSE @,
                             !.reconnect = @ \/ AfterClose,
                             !.lateConnect = @ \/ CloseCompleted]
       IN IF ok
            THEN /\ conn' = [c1 EXCEPT ![id] = [NoConn EXCEPT !.live = TRUE]]
                 /\ log' = [lg EXCEPT !.created = id]
                 /\ connector' = [connector EXCEPT !.pc = "assign", !.calls = @ + 1,
                                                   !.result = "none"]
            ELSE /\ conn' = c1
                 /\ log' = lg
                 /\ connector' = [connector EXCEPT !.calls = @ + 1,
                                                   !.result = "error: NewPeerConnection"]
  /\ pc' = Nil
  /\ UNCHANGED <<transport, offerChannel, answerChannel, errorChannel, writePipe,
                 lastReceive, buffer, reset, closed, pipe, sent, received, now,
                 panic, closer, wd, writer, onOpen, onMsg, broker, resetter, reader>>

\* preparePeerConnection, lines 158-192: the callbacks are set on the new engine
\* connection and line 190 stores it in c.pc.
ConnectAssign ==
  /\ panic = "none"
  /\ connector.pc = "assign"
  /\ pc' = log.created
  /\ connector' = [connector EXCEPT !.pc = "establish"]
  /\ UNCHANGED <<transport, offerChannel, answerChannel, errorChannel, writePipe,
                 lastReceive, buffer, reset, closed, pipe, conn, sent, received, now,
                 panic, closer, wd, writer, onOpen, onMsg, broker, resetter,
                 reader, log>>

\* establishDataChannel, lines 196-207 and 252-253: CreateDataChannel triggers
\* OnNegotiationNeeded on the engine connection.
ConnectEstablish ==
  /\ panic = "none"
  /\ connector.pc = "establish"
  /\ IF transport # Nil
       THEN /\ panic' = "datachannel already exists"
            /\ UNCHANGED <<conn, connector>>
       ELSE IF pc = Nil
         THEN /\ panic' = "nil dereference: c.pc"
              /\ UNCHANGED <<conn, connector>>
         ELSE /\ UNCHANGED panic
              /\ \E ok \in BOOLEAN :
                   IF ok
                     THEN /\ conn' = [conn EXCEPT ![pc].dc = "connecting",
                                                  ![pc].neg = "needed"]
                          /\ connector' = [connector EXCEPT !.pc = "select"]
                     ELSE /\ conn' = conn
                          /\ connector' = [connector EXCEPT !.pc = "idle",
                                             !.result = "error: DataChannel"]
  /\ UNCHANGED <<pc, transport, offerChannel, answerChannel, errorChannel, writePipe,
                 lastReceive, buffer, reset, closed, pipe, sent, received, now,
                 closer, wd, writer, onOpen, onMsg, broker, resetter, reader, log>>

\* exchangeSDP, lines 272-280: the select takes the offer.
ExchangeOffer ==
  /\ panic = "none"
  /\ connector.pc = "select"
  /\ Ready(offerChannel)
  /\ offerChannel' = Taken(offerChannel)
  /\ connector' = [connector EXCEPT !.pc = "loop"]
  /\ UNCHANGED <<pc, transport, answerChannel, errorChannel, writePipe,
                 lastReceive, buffer, reset, closed, pipe, conn, sent, received, now,
                 panic, closer, wd, writer, onOpen, onMsg, broker, resetter,
                 reader, log>>

\* exchangeSDP, lines 281-283: the select takes the error and calls Close.
ExchangeError ==
  /\ panic = "none"
  /\ connector.pc = "select"
  /\ Ready(errorChannel)
  /\ errorChannel' = Taken(errorChannel)
  /\ connector' = [connector EXCEPT !.pc = "fatal", !.err = Recv(errorChannel, "nil")]
  /\ closer' = [closer EXCEPT ![<<"connect", 0>>] = "call"]
  /\ UNCHANGED <<pc, transport, offerChannel, answerChannel, writePipe,
                 lastReceive, buffer, reset, closed, pipe, conn, sent, received, now,
                 panic, wd, writer, onOpen, onMsg, broker, resetter, reader, log>>

\* Connect returns nil: line 143 starts the watchdog of this call.
Started(w, k) == [w EXCEPT ![k] = "init"]

\* Connect, line 140: err != nil.
IsErrorNever(e) == FALSE
IsError(e) == e # "nil"

\* exchangeSDP, line 284, and Connect, lines 140-144: the error read from a
\* closed errorChannel is nil, and Connect goes on as after a success.
ExchangeFatalReturn ==
  /\ panic = "none"
  /\ connector.pc = "fatalret"
  /\ IF ~IsError(connector.err)
       THEN /\ connector' = [connector EXCEPT !.pc = "idle", !.result = "ok"]
            /\ wd' = Started(wd, connector.calls)
       ELSE /\ connector' = [connector EXCEPT !.pc = "idle", !.result = "error: offer"]
            /\ wd' = wd
  /\ UNCHANGED <<pc, transport, offerChannel, answerChannel, errorChannel, writePipe,
                 lastReceive, buffer, reset, closed, pipe, conn, sent, received, now,
                 panic, closer, writer, onOpen, onMsg, broker, resetter, reader, log>>

\* exchangeSDP, line 290: go c.sendOfferToBroker().
LoopSpawn ==
  /\ panic = "none"
  /\ connector.pc = "loop"
  /\ log.submissions < MaxSubmissions
  /\ broker' = [broker EXCEPT !.starting = @ + 1]
  /\ log' = [log EXCEPT !.submissions = @ + 1,
                        !.lateSpawns = IF answerChannel.open THEN @ ELSE @ + 1]
  /\ connector' = [connector EXCEPT !.pc = "await"]
  /\ UNCHANGED <<pc, transport, offerChannel, answerChannel, errorChannel, writePipe,
                 lastReceive, buffer, reset, closed, pipe, conn, sent, received, now,
                 panic, closer, wd, writer, onOpen, onMsg, resetter, reader>>

\* Line 292: the answer is retried when the receive failed or it is nil.
RetryNever(v) == FALSE
Retry(v) == v = "nil"

\* exchangeSDP, lines 291-296: receive the answer; back off on none.
AwaitAnswer ==
  /\ panic = "none"
  /\ connector.pc = "await"
  /\ Ready(answerChannel)
  /\ answerChannel' = Taken(answerChannel)
  /\ LET v == Recv(answerChannel, "nil")
     IN IF Retry(v)
          THEN /\ connector' = [connector EXCEPT !.pc = "backoff",
                                                 !.wait = ReconnectTimeout]
               /\ log' = [log EXCEPT !.backoffs = @ + 1]
          ELSE /\ connector' = [connector EXCEPT !.pc = "apply", !.answer = v]
               /\ log' = log
  /\ UNCHANGED <<pc, transport, offerChannel, errorChannel, writePipe,
                 lastReceive, buffer, reset, closed, pipe, conn, sent, received, now,
                 panic, closer, wd, writer, onOpen, onMsg, broker, resetter, reader>>

\* exchangeSDP, lines 294-295 and 289: the backoff is over, try again.
BackoffDone ==
  /\ panic = "none"
  /\ connector.pc = "backoff"
  /\ connector.wait = 0
  /\ connector' = [connector EXCEPT !.pc = "loop"]
  /\ UNCHANGED <<pc, transport, offerChannel, answerChannel, errorChannel, writePipe,
                 lastReceive, buffer, reset, closed, pipe, conn, sent, received, now,
                 panic, closer, wd, writer, onOpen, onMsg, broker, resetter,
                 reader, log>>

\* exchangeSDP, lines 298-304, and Connect, lines 140-144.
ApplyAnswer ==
  /\ panic = "none"
  /\ connector.pc = "apply"
  /\ IF pc = Nil
       THEN /\ panic' = "nil dereference: c.pc"
            /\ UNCHANGED <<conn, connector, wd>>
       ELSE /\ UNCHANGED panic
            /\ IF connector.answer = "good"
                 THEN /\ conn' = [conn EXCEPT ![pc].remote = TRUE]
                      /\ connector' = [connector EXCEPT !.pc = "idle", !.result = "ok"]
                      /\ wd' = Started(wd, connector.calls)
                 ELSE /\ connector' = [connector EXCEPT !.pc = "idle",
                                         !.result = "error: SetRemoteDescription"]
                      /\ UNCHANGED <<conn, wd>>
  /\ UNCHANGED <<pc, transport, offerChannel, answerChannel, errorChannel, writePipe,
                 lastReceive, buffer, reset, closed, pipe, sent, received, now,
                 closer, writer, onOpen, onMsg, broker, resetter, reader, log>>

-----------------------------------------------------------------------------
(* The engine's negotiation callbacks, lines 159-183.                      *)

\* The goroutine of OnNegotiationNeeded, lines 161-173: CreateOffer and
\* SetLocalDescription succeed, or the error is sent on errorChannel.
CreateOffer(id) ==
  /\ panic = "none"
  /\ conn[id].neg = "needed"
  /\ \E ok \in BOOLEAN :
       IF ok
         THEN /\ conn' = [conn EXCEPT ![id].neg = "local"]
              /\ UNCHANGED <<errorChannel, panic>>
         ELSE IF ~errorChannel.open
           THEN /\ panic' = "send on closed channel: errorChannel"
                /\ UNCHANGED <<errorChannel, conn>>
           ELSE /\ Len(errorChannel.q) = 0
                /\ errorChannel' = [errorChannel EXCEPT !.q = <<"error">>]
                /\ conn' = [conn EXCEPT ![id].neg = "failed"]
                /\ UNCHANGED panic
  /\ UNCHANGED <<pc, transport, offerChannel, answerChannel, writePipe,
                 lastReceive, buffer, reset, closed, pipe, sent, received, now,
                 closer, connector, wd, writer, onOpen, onMsg, broker, resetter,
                 reader, log>>

\* pc.OnIceComplete, lines 180-183.
OnIceComplete(id) ==
  /\ panic = "none"
  /\ conn[id].neg = "local"
  /\ conn[id].live
  /\ IF ~offerChannel.open
       THEN /\ panic' = "send on closed channel: offerChannel"
            /\ UNCHANGED <<offerChannel, conn>>
       ELSE /\ Len(offerChannel.q) = 0
            /\ offerChannel' = [offerChannel EXCEPT !.q = <<"offer">>]
            /\ conn' = [conn EXCEPT ![id].neg = "gathered"]
            /\ UNCHANGED panic
  /\ UNCHANGED <<pc, transport, answerChannel, errorChannel, writePipe,
                 lastReceive, buffer, reset, closed, pipe, sent, received, now,
                 closer, connector, wd, writer, onOpen, onMsg, broker, resetter,
                 reader, log>>

-----------------------------------------------------------------------------
(* sendOfferToBroker, lines 256-267.                                       *)

\* Line 260: c.pc.LocalDescription(), and the call of Negotiate.
BrokerStart ==
  /\ panic = "none"
  /\ broker.starting > 0
  /\ IF pc = Nil
       THEN /\ panic' = "nil dereference: c.pc"
            /\ UNCHANGED broker
       ELSE /\ broker' = [starting |-> broker.starting - 1,
                          negotiating |-> broker.negotiating + 1]
            /\ UNCHANGED panic
  /\ UNCHANGED <<pc, transport, offerChannel, answerChannel, errorChannel, writePipe,
                 lastReceive, buffer, reset, closed, pipe, conn, sent, received, now,
                 closer, connector, wd, writer, onOpen, onMsg, resetter, reader, log>>

\* Lines 261-266: Negotiate fails ("nil") or returns an answer, one that
\* SetRemoteDescription accepts ("good") or not ("bad"); it is sent on
\* answerChannel.
BrokerAnswer ==
  /\ panic = "none"
  /\ broker.negotiating > 0
  /\ \E r \in {"nil", "good", "bad"} :
       IF ~answerChannel.open
         THEN /\ panic' = "send on closed channel: answerChannel"
              /\ UNCHANGED <<answerChannel, broker, log>>
         ELSE /\ Len(answerChannel.q) = 0
              /\ answerChannel' = [answerChannel EXCEPT !.q = <<r>>]
              /\ broker' = [broker EXCEPT !.negotiating = @ - 1]
              /\ log' = [log EXCEPT !.failures = IF r = "nil" THEN @ + 1 ELSE @]
              /\ UNCHANGED panic
  /\ UNCHANGED <<pc, transport, offerChannel, errorChannel, writePipe,
                 lastReceive, buffer, reset, closed, pipe, conn, sent, received, now,
                 closer, connector, wd, writer, onOpen, onMsg, resetter, reader>>

-----------------------------------------------------------------------------
(* dc.OnClose, lines 222-234, and dc.OnMessage, lines 235-251.             *)

\* The remote peer closes the open channel id.
RemoteClose(id) ==
  /\ panic = "none"
  /\ conn[id].dc = "open"
  /\ conn' = [conn EXCEPT ![id].dc = "closing"]
  /\ UNCHANGED <<pc, transport, offerChannel, answerChannel, errorChannel, writePipe,
                 lastReceive, buffer, reset, closed, pipe, sent, received, now,
                 panic, closer, connector, wd, writer, onOpen, onMsg, broker, resetter,
                 reader, log>>

\* Line 224: the callback takes the close for a local one when c.transport
\* is nil.
ClosedLocallyAlways == TRUE
ClosedLocally == transport = Nil

\* Lines 222-233: the callback of the closed channel id; on a remote close it
\* clears c.transport and calls Close.
OnClose(id) ==
  /\ panic = "none"
  /\ conn[id].dc = "closing"
  /\ closer[<<"onclose", 0>>] = "idle"
  /\ conn' = [conn EXCEPT ![id].dc = "closed"]
  /\ log' = [log EXCEPT !.remote = @ \/ transport # Nil]
  /\ IF ClosedLocally
       THEN UNCHANGED <<transport, closer>>
       ELSE /\ transport' = Nil
            /\ closer' = [closer EXCEPT ![<<"onclose", 0>>] = "call"]
  /\ UNCHANGED <<pc, offerChannel, answerChannel, errorChannel, writePipe,
                 lastReceive, buffer, reset, closed, pipe, sent, received, now,
                 panic, connector, wd, writer, onOpen, onMsg, broker, resetter,
                 reader>>

\* Line 240: c.writePipe.Write(msg) of a message of len bytes on the open
\* channel id.  The write blocks until a Read takes it or the pipe closes.
OnMessageBegin(id) ==
  /\ panic = "none"
  /\ onMsg.pc = "idle"
  /\ conn[id].dc = "open"
  /\ log.messages < MaxMessages
  /\ \E len \in 0..1 :
       IF writePipe = "nil"
         THEN /\ panic' = "nil dereference: c.writePipe"
              /\ UNCHANGED <<pipe, onMsg, log>>
         ELSE /\ UNCHANGED panic
              /\ log' = [log EXCEPT !.messages = @ + 1]
              /\ IF pipe.closed
                   THEN /\ onMsg' = [pc |-> "after", len |-> len, n |-> 0, err |-> TRUE]
                        /\ pipe' = pipe
                   ELSE /\ onMsg' = [pc |-> "writing", len |-> len, n |-> 0, err |-> FALSE]
                        /\ pipe' = [pipe EXCEPT !.writing = TRUE,
                                      !.data = IF len = 0 THEN <<>> ELSE <<log.messages + 1>>]
  /\ UNCHANGED <<pc, transport, offerChannel, answerChannel, errorChannel, writePipe,
                 lastReceive, buffer, reset, closed, conn, sent, received, now,
                 closer, connector, wd, writer, onOpen, broker, resetter, reader>>

\* Lines 241-250: after the write. CloseWithError on a failure, the panic on a
\* short write, and the update of c.lastReceive.
OnMessageEnd ==
  /\ panic = "none"
  /\ onMsg.pc = "after"
  /\ IF onMsg.err /\ writePipe = "nil"
       THEN /\ panic' = "nil dereference: c.writePipe"
            /\ UNCHANGED <<pipe, onMsg, lastReceive, log>>
       ELSE /\ pipe' = IF onMsg.err THEN PipeClose(pipe) ELSE pipe
            /\ IF onMsg.n # onMsg.len
                 THEN /\ panic' = "short write"
                      /\ UNCHANGED <<onMsg, lastReceive, log>>
                 ELSE /\ lastReceive' = now
                      /\ onMsg' = NoMsg
                      /\ log' = [log EXCEPT !.lastMsg = now, !.lastFrom = "message"]
                      /\ UNCHANGED panic
  /\ UNCHANGED <<pc, transport, offerChannel, answerChannel, errorChannel, writePipe,
                 buffer, reset, closed, conn, sent, received, now,
                 closer, connector, wd, writer, onOpen, broker, resetter, reader>>

\* Read, lines 65-67: c.recvPipe.Read(b) takes the pending write (b is large
\* enough for a message), or returns io.EOF once the write end is closed.
Read ==
  /\ panic = "none"
  /\ IF pipe.writing
       THEN /\ received' = received \o pipe.data
            /\ pipe' = [pipe EXCEPT !.writing = FALSE, !.data = <<>>]
            /\ onMsg' = [onMsg EXCEPT !.pc = "after", !.n = onMsg.len]
            /\ reader' = "data"
       ELSE /\ pipe.closed
            /\ reader' = "EOF"
            /\ UNCHANGED <<received, pipe, onMsg>>
  /\ UNCHANGED <<pc, transport, offerChannel, answerChannel, errorChannel, writePipe,
                 lastReceive, buffer, reset, closed, conn, sent, now,
                 panic, closer, connector, wd, writer, onOpen, broker, resetter, log>>

-----------------------------------------------------------------------------
(* checkForStaleness, lines 110-124, and the clock.                        *)

\* Line 111: c.lastReceive = time.Now().
WatchdogInit(k) ==
  /\ panic = "none"
  /\ wd[k] = "init"
  /\ lastReceive' = now
  /\ wd' = [wd EXCEPT ![k] = "check"]
  /\ log' = [log EXCEPT !.lastMsg = now, !.lastFrom = "start"]
  /\ UNCHANGED <<pc, transport, offerChannel, answerChannel, errorChannel, writePipe,
                 buffer, reset, closed, pipe, conn, sent, received, now,
                 panic, closer, connector, writer, onOpen, onMsg, broker, resetter,
                 reader>>

\* Line 116: time.Since(c.lastReceive).Seconds() > SnowflakeTimeout.
StaleAtTimeout == now - lastReceive >= SnowflakeTimeout
Stale == now - lastReceive > SnowflakeTimeout

\* Lines 113-122: one round of the loop.
WatchdogCheck(k) ==
  /\ panic = "none"
  /\ wd[k] = "check"
  /\ IF closed
       THEN /\ wd' = [wd EXCEPT ![k] = "done"]
            /\ UNCHANGED <<closer, log>>
       ELSE IF Stale
         THEN /\ wd' = [wd EXCEPT ![k] = "closing"]
              /\ closer' = [closer EXCEPT ![<<"wd", k>>] = "call"]
              /\ log' = [log EXCEPT !.firedAfter = log.lastFrom]
         ELSE /\ wd' = [wd EXCEPT ![k] = "sleep"]
              /\ UNCHANGED <<closer, log>>
  /\ UNCHANGED <<pc, transport, offerChannel, answerChannel, errorChannel, writePipe,
                 lastReceive, buffer, reset, closed, pipe, conn, sent, received, now,
                 panic, connector, writer, onOpen, onMsg, broker, resetter,
                 reader>>

\* A second passes: the watchdogs asleep in line 122 wake up, the backoff of
\* line 294 runs down.
Tick ==
  /\ panic = "none"
  /\ now < MaxTime
  /\ now' = now + 1
  /\ wd' = [k \in Ids |-> IF wd[k] = "sleep" THEN "check" ELSE wd[k]]
  /\ connector' = [connector EXCEPT !.wait = IF @ > 0 THEN @ - 1 ELSE 0]
  /\ UNCHANGED <<pc, transport, offerChannel, answerChannel, errorChannel, writePipe,
                 lastReceive, buffer, reset, closed, pipe, conn, sent, received,
                 panic, closer, writer, onOpen, onMsg, broker, resetter,
                 reader, log>>

-----------------------------------------------------------------------------

\* The steps of Connect after preparePeerConnection.
ConnectSteps ==
  \/ ConnectAssign
  \/ ConnectEstablish
  \/ ExchangeOffer
  \/ ExchangeError
  \/ ExchangeFatalReturn
  \/ LoopSpawn
  \/ AwaitAnswer
  \/ BackoffDone
  \/ ApplyAnswer

\* The engine's negotiation and the broker.
NegotiationSteps ==
  \/ \E id \in Ids : CreateOffer(id)
  \/ \E id \in Ids : OnIceComplete(id)
  \/ BrokerStart
  \/ BrokerAnswer

\* Close, by any of its callers.
CloseSteps ==
  \/ \E x \in Ctx : CloseCall(x)
  \/ \E x \in Ctx : CloseMark(x)
  \/ \E x \in Ctx : CleanupCarriers(x)
  \/ \E x \in Ctx : CleanupPipe(x)
  \/ \E x \in Ctx : CleanupPipeNil(x)
  \/ \E x \in Ctx : CleanupTransport(x)
  \/ \E x \in Ctx : CleanupPc(x)
  \/ \E x \in Ctx : CloseReset(x)

\* The data channel opens and closes.
ChannelSteps ==
  \/ \E id \in Ids : OnOpenFlush(id)
  \/ OnOpenPublish
  \/ \E id \in Ids : RemoteClose(id)
  \/ \E id \in Ids : OnClose(id)

WatchdogSteps ==
  \/ \E k \in Ids : WatchdogInit(k)
  \/ \E k \in Ids : WatchdogCheck(k)
  \/ Tick

MessageSteps ==
  \/ \E id \in Ids : OnMessageBegin(id)
  \/ OnMessageEnd
  \/ Read

\* The first call of Connect on the session.
FirstConnect == connector.calls = 0 /\ ConnectPrepare

\* The lifecycle of a session that is connected once: Connect, the channel,
\* Close by all its callers, the watchdog, Reset and WaitForReset.
Next ==
  \/ FirstConnect
  \/ ConnectSteps
  \/ NegotiationSteps
  \/ ChannelSteps
  \/ CloseSteps
  \/ WatchdogSteps
  \/ ResetCall
  \/ ResetSend
  \/ WaitForReset

Spec == Init /\ [][Next]_vars

\* The data path of a session that is connected once: Write against the
\* opening and closing channel, inbound messages and Read.
NextData ==
  \/ FirstConnect
  \/ ConnectSteps
  \/ NegotiationSteps
  \/ ChannelSteps
  \/ CloseSteps
  \/ WriteCall
  \/ WriteAct
  \/ MessageSteps
  \/ Tick

SpecData == Init /\ [][NextData]_vars

\* A session that is connected, receives messages and is watched for
\* staleness.
NextWatchdog ==
  \/ FirstConnect
  \/ ConnectSteps
  \/ NegotiationSteps
  \/ ChannelSteps
  \/ CloseSteps
  \/ WatchdogSteps
  \/ MessageSteps

SpecWatchdog == Init /\ [][NextWatchdog]_vars

\* A session on which Connect is called again.
NextReconnect ==
  \/ ConnectPrepare
  \/ ConnectSteps
  \/ NegotiationSteps
  \/ ChannelSteps
  \/ CloseSteps
  \/ WaitForReset
  \/ Tick

SpecReconnect == Init /\ [][NextReconnect]_vars

-----------------------------------------------------------------------------
(* The claims.                                                             *)

\* The bytes of the Send calls, in the order the channels received them.
RECURSIVE Flat(_)
Flat(q) == IF q = <<>> THEN <<>> ELSE Head(q).data \o Flat(Tail(q))

\* The bytes of the Write calls that have returned, in the order written.
Written == [i \in 1..(IF writer.pc = "idle" THEN writer.n ELSE writer.n - 1) |-> i]

\* C1: once the channel is present, the bytes it received by Send are the
\* bytes of all the writes, those made before it became present and those
\* made after, in the order written, with none lost, duplicated or reordered,
\* and the buffer was flushed in one Send.
C1_WritesArriveInOrder ==
  (transport # Nil /\ writer.pc = "idle")
    => (Flat(sent) = Written /\ log.flushes <= 1)

\* No call of Close is under way.
Quiet == \A x \in Ctx : closer[x] \in {"idle", "call"}

\* What Close releases: the fields of the session and the objects behind them.
released == <<pc, transport, offerChannel, answerChannel, errorChannel, writePipe,
              reset, closed, pipe, conn>>

\* Over Close calls that did not overlap, the body of cleanup ran at most once
\* and released each thing at most once; when every call has returned, it ran
\* once, the reset was fired once and every later call returned at line 86.
ReleasedOnce ==
  ~log.overlap =>
    /\ panic # "close of closed channel"
    /\ log.cleanups <= 1 /\ log.pipeClosed <= 1 /\ log.dcClosed <= 1
    /\ log.pcClosed <= 1 /\ log.closeResets <= 1
    /\ (log.closeCalls > 0 /\ Quiet /\ panic = "none") =>
         /\ closed
         /\ ~offerChannel.open /\ ~answerChannel.open /\ ~errorChannel.open
         /\ pipe.closed /\ writePipe = "nil"
         /\ log.cleanups = 1 /\ log.pipeClosed = 1 /\ log.closeResets = 1
         /\ log.noops = log.closeCalls - 1

\* C2: Close called again and again, one call after the other: closedFlag never
\* returns to false, a call made once it is true changes nothing of the
\* session, and the carriers, the bridge's write end, the channel and the
\* engine connection are released once, by the first call.
C2_CloseIdempotent ==
  [][ /\ closed => closed'
      /\ (closed /\ \E x \in Ctx : CloseCall(x)) => UNCHANGED released
      /\ ReleasedOnce' ]_vars

\* C2's case: a second call of Close has returned after the first one, which
\* released a channel and an engine connection.
C2_Witness ==
  /\ ~log.overlap /\ Quiet /\ log.noops >= 1
  /\ log.dcClosed = 1 /\ log.pcClosed = 1

\* C3: under concurrent calls of Close the cleanup runs once in all, no carrier
\* is closed twice and the reset is fired once.
C3_ConcurrentCloseOnce ==
  /\ panic # "close of closed channel"
  /\ log.cleanups <= 1
  /\ log.closeResets <= 1

\* C4: a Close called while Connect is in the retry loop ends the loop: Connect
\* launches no further submission once the carriers are closed, and nobody
\* sends on a closed carrier or uses the released engine connection.
C4_CloseCancelsNegotiation ==
  log.closeInLoop =>
    /\ panic \notin {"send on closed channel: answerChannel", "nil dereference: c.pc"}
    /\ log.lateSpawns = 0

\* C5: Reset never blocks: no caller of Reset, direct or from Close, stands at
\* the send of line 101 with the reset channel full, and the channel holds at
\* most one notification.
C5_ResetNeverBlocks ==
  /\ reset <= 1
  /\ ~(resetter.pc = "send" /\ ~ResetCanSend)
  /\ \A x \in Ctx : ~(closer[x] = "reset" /\ ~ResetCanSend)

\* C6: a Connect called again after a Close that has returned runs a fresh
\* attempt: the offer and the answer are exchanged over the carriers, nobody
\* sends on a closed carrier, and when Connect returns without an error the
\* answer has been applied to the new engine connection.
C6_ConnectAgainAfterClose ==
  log.reconnect =>
    /\ panic \notin {"send on closed channel: offerChannel",
                      "send on closed channel: answerChannel"}
    /\ log.lateSpawns = 0
    /\ (connector.pc = "idle" /\ connector.result = "ok") =>
         (log.created > 0 /\ conn[log.created].remote)

\* C7: once Close has been called, Read gets the end of the stream, no inbound
\* message is delivered after the write end is closed, and an inbound message
\* that arrives during or after Close does not fault the session.
C7_ReadEndsAfterClose ==
  /\ pipe.closed => ~pipe.writing
  /\ (closed /\ log.closeCalls > 0 /\ Quiet /\ panic = "none") => pipe.closed
  /\ closed => panic \notin {"short write", "nil dereference: c.writePipe"}

\* Connect has left the retry loop with an answer and the carriers are open.
Answered ==
  /\ answerChannel.open
  /\ \/ connector.pc = "apply"
     \/ /\ connector.pc = "idle"
        /\ connector.result \in {"ok", "error: SetRemoteDescription"}

\* C8: a failure of the broker (an error or a nil answer) does not end the
\* negotiation and is not returned from Connect: after k failures and then an
\* answer, Connect has made k+1 submissions and k backoff waits, each of a
\* full backoff interval, and with a valid answer it has applied it as the
\* remote description and returned success.
C8_RetryUntilAnswer ==
  /\ Answered =>
       /\ log.submissions = log.failures + 1
       /\ log.backoffs = log.failures
       /\ now >= log.backoffs * ReconnectTimeout
       /\ connector.pc = "idle" =>
            /\ connector.result = "ok" <=> connector.answer = "good"
            /\ connector.result = "ok" => conn[log.created].remote
  /\ (answerChannel.open /\ log.failures > 0 /\ connector.pc = "idle")
       => connector.result \in {"ok", "error: SetRemoteDescription"}

\* C8's case: the broker failed twice, then Connect returned success.
C8_Witness ==
  /\ Answered /\ connector.pc = "idle" /\ connector.result = "ok"
  /\ log.failures = 2

\* The time since the last inbound message was handled (line 250), or since
\* the watchdog started.
Silence == now - log.lastMsg

C10_RemoteCloseCloses ==
  (log.remote /\ Quiet /\ closer[<<"onclose", 0>>] = "idle" /\ panic = "none") =>
    /\ transport = Nil
    /\ closed
    /\ pc = Nil /\ \A id \in Ids : ~conn[id].live
    /\ log.closeResets = 1

\* C10's case: the remote peer closed the channel, the application never
\* called Close, and the Close of the callback has returned.
C10_Witness ==
  /\ log.remote /\ Quiet /\ closer[<<"onclose", 0>>] = "idle"
  /\ log.appCloses = 0
  /\ \A k \in Ids : wd[k] # "closing"
  /\ log.closeCalls = 1

\* C11: every path that closes the session culminates in a reset notification:
\* once closedFlag is true, the Close that set it has fired the reset or is
\* still on its way to it in a running process; and the reset channel holds a
\* notification for WaitForReset only after a Reset fired one.
C11_CloseEndsInReset ==
  /\ closed =>
       \/ log.closeResets >= 1
       \/ panic = "none" /\ \E x \in Ctx : closer[x] \notin {"idle", "call"}
  /\ reset <= log.resets

\* C12: when Connect has returned a negotiation error, of the local description
\* (the offer) or of the remote description (the answer), and no call of Close
\* is under way, the session is closed: closedFlag is true, the channel and the
\* engine connection are released and the reset was fired.
C12_NegotiationErrorCloses ==
  (/\ connector.pc = "idle"
   /\ connector.result \in {"error: offer", "error: SetRemoteDescription"}
   /\ Quiet /\ panic = "none") =>
    /\ closed
    /\ transport = Nil
    /\ pc = Nil /\ \A id \in Ids : ~conn[id].live
    /\ log.closeResets >= 1

\* C13: in every state c.buffer holds bytes only while c.transport is nil: the
\* flush, the clearing and the publication of the channel are one step with
\* respect to Write, and no written byte is in the buffer once the channel is
\* present.
C13_BufferOnlyWhileAbsent ==
  Len(buffer) > 0 => transport = Nil

\* C14: when the select of exchangeSDP took an error of the offer's preparation
\* from errorChannel: no submission to the broker was or is made, no watchdog
\* is started, Connect returns that error, and when it has returned the
\* session is closed (with the resources released and the reset fired once no
\* call of Close is under way).
C14_FatalErrorAborts ==
  /\ (connector.pc \in {"fatal", "fatalret"} /\ connector.err = "error") =>
       /\ log.submissions = 0 /\ broker.starting = 0 /\ broker.negotiating = 0
       /\ \A k \in Ids : wd[k] = "off"
  /\ (connector.pc = "idle" /\ connector.err = "error") =>
       /\ connector.result = "error: offer"
       /\ log.submissions = 0 /\ broker.starting = 0 /\ broker.negotiating = 0
       /\ \A k \in Ids : wd[k] = "off"
       /\ closed
       /\ (Quiet /\ panic = "none") =>
            (pc = Nil /\ transport = Nil /\ log.closeResets = 1)

\* C14's case: the offer's preparation failed, Connect closed the session (no
\* one else called Close) and returned the error.
C14_Witness ==
  /\ connector.pc = "idle" /\ connector.err = "error"
  /\ connector.result = "error: offer"
  /\ Quiet /\ log.closeCalls = 1 /\ log.closeResets = 1

\* C15: a local Close clears c.transport before it asks the channel to close,
\* and the channel-closed callback of a channel closed that way takes no
\* action: it does not call Close, releases nothing and fires no reset.
C15_LocalCloseNoAction ==
  [][ \A id \in Ids :
        /\ (id \in log'.localClose /\ id \notin log.localClose) => transport' = Nil
        /\ (id \in log.localClose /\ conn[id].dc = "closing" /\ conn'[id].dc = "closed") =>
             /\ UNCHANGED <<pc, transport, offerChannel, answerChannel, errorChannel,
                            writePipe, reset, closed, pipe, closer>>
             /\ log'.closeCalls = log.closeCalls /\ log'.resets = log.resets
             /\ ~log'.remote ]_vars

\* C15's case: the callback of a channel that Close closed has run.
C15_Witness ==
  \E id \in Ids : id \in log.localClose /\ conn[id].dc = "closed"

\* C16: a failed delivery of an inbound message (c.writePipe.Write returned an
\* error) does not abort the process: the callback, past the failed write,
\* ends neither in the short-write panic nor in a fault on c.writePipe.
C16_DeliveryFailureNoAbort ==
  (onMsg.pc = "after" /\ onMsg.err) =>
    panic \notin {"short write", "nil dereference: c.writePipe"}

\* The engine connections that were created and not yet closed.
Live == {id \in Ids : conn[id].live}

\* C17: at most one engine connection of the session is live at any time, and
\* when Close has completed and no Connect is in progress (every call of
\* Connect began before Close completed), no engine connection is live.
C17_OneLiveEngineConnection ==
  /\ Cardinality(Live) <= 1
  /\ (CloseCompleted /\ connector.pc = "idle" /\ ~log.lateConnect /\ panic = "none")
       => Live = {}

\* C18: a watchdog is started only when Connect succeeded in full, the answer
\* applied as the remote description of its engine connection; and when
\* Connect returned a setup error (engine connection or channel not created)
\* the broker was not contacted, no channel is present, no watchdog was
\* started, and the session is not closed unless somebody called Close.
C18_WatchdogOnlyOnSuccess ==
  /\ (\E k \in Ids : wd[k] # "off") => (\E id \in Ids : conn[id].remote)
  /\ (/\ connector.pc = "idle"
      /\ connector.result \in {"error: NewPeerConnection", "error: DataChannel"}) =>
       /\ log.submissions = 0
       /\ transport = Nil
       /\ \A k \in Ids : wd[k] = "off"
       /\ log.closeCalls = 0 => (~closed /\ log.closeResets = 0)

\* The submissions to the broker that were launched and have not yet delivered
\* their result to answerChannel.
Outstanding == broker.starting + broker.negotiating

\* C19: within a connection attempt at most one submission to the broker is
\* outstanding, its result is consumed before the next one is launched (so the
\* answer slot and the outstanding submissions never hold more than one
\* between them and no submitter waits on a full slot), and at most one answer
\* is applied as a remote description.
C19_OneSubmissionOutstanding ==
  /\ Outstanding + Len(answerChannel.q) <= 1
  /\ Cardinality({id \in Ids : conn[id].remote}) <= 1

\* The byte k is among the bytes of the sequence q.
InSeq(k, q) == \E i \in 1..Len(q) : q[i] = k

\* C20: Write returns the length of its input and no error in every state, it
\* never faults; and a byte written once Close has completed, with c.transport
\* nil, is accepted into c.buffer and is never sent to a channel.
C20_WriteAlwaysSucceeds ==
  /\ panic # "nil dereference: c.transport"
  /\ \A k \in log.lateWrites :
       /\ ~InSeq(k, Flat(sent))
       /\ (writer.n > k \/ writer.pc = "idle") => InSeq(k, buffer)

====
